---- MODULE Spec2Model ----
(***************************************************************************)
(* Lazy cell loading (read_rawcells, RawCell::clear, RawCell::to_gds),     *)
(* dependency queries (RawCell::get_dependencies) and polygon extraction   *)
(* (RawCell::get_polygons) of src/src/rawcell.cpp, as state machines over  *)
(* a GDSII record stream.                                                  *)
(*                                                                         *)
(* A stream is a sequence of records [type, data]; data is the payload as  *)
(* it lies in the reader's buffer after the byte swap (host order, little  *)
(* endian: the low byte of an integer comes first).  A record is           *)
(* 4 + Len(data) bytes long.  Characters are small positive numbers and 0  *)
(* is the NUL byte.                                                        *)
(***************************************************************************)
EXTENDS Integers, Sequences, FiniteSets, TLC

VARIABLES
    file,         \* the record stream of the input file (never written)
    \* ---- read_rawcells / clear / to_gds
    pc,           \* where read_rawcells is, or "returned" / "failed" after it
    idx,          \* records consumed by read_rawcells
    cells,        \* allocated RawCell objects, by id (allocation order)
    result,       \* Map<RawCell*>: name -> id
    rawcell,      \* read_rawcells' local `rawcell` (0 is NULL)
    source,       \* the shared RawSource: [uses, open, closes, freed, stale_reads]
    td,           \* error path of read_rawcells: map items still to tear down
    error_code,   \* *error_code of the running / last call
    out,          \* the last to_gds: [cell, from, count, err], the bytes written being
                  \* `count` bytes of the input file from position `from` on
    \* ---- get_dependencies
    gd,           \* last get_dependencies call: [state, cell, recursive, map, path]
    \* ---- get_polygons
    gp_stack,     \* activation records of get_polygons, innermost last
    start_id,     \* int& start_id, shared by all nested calls
    polygons,     \* std::vector<std::vector<int>>& polygons: <<x, y, id>> triples
    gp,           \* bookkeeping of the top-level call: [state, cell, depth, calls, streams]
    \* ---- the resolution pass of read_rawcells, slot by slot
    rp            \* [item, i]: the entity whose dependencies are resolved, the cursor

vars == <<file, pc, idx, cells, result, rawcell, source, td, error_code, out,
          gd, gp_stack, start_id, polygons, gp, rp>>

(***************************************************************************)
(* Bounds of the model.                                                    *)
(***************************************************************************)
\* elements (BOUNDARY or SREF) in one file, over all its structures
MaxElems == 2
\* coordinate pairs in the XY record of one BOUNDARY
MaxPairs == 2

\* The structure names of the model: "A", "AB", "ABC" (1 = 'A', 2 = 'B', 3 = 'C').
\* "A" and "ABC" have odd length and are NUL-padded in the stream; "AB" is a
\* proper prefix of "ABC" and is stored without a terminator.
NameList == << <<1>>, <<1, 2>>, <<1, 2, 3>> >>
NumNames == Len(NameList)
Name(j) == NameList[j]

NULL == 0

(***************************************************************************)
(* The input files.  A file description is a sequence of structure bodies; *)
(* structure k is named Name(k); an element is <<"BOUNDARY", n>> (n        *)
(* coordinate pairs) or <<"SREF", j>> (an instance of Name(j), which the   *)
(* file may or may not define).                                            *)
(***************************************************************************)
Elems == ({"BOUNDARY"} \X (1..MaxPairs)) \cup ({"SREF"} \X (1..NumNames))

RECURSIVE SumSeq(_)
SumSeq(s) == IF s = <<>> THEN 0 ELSE Head(s) + SumSeq(Tail(s))

\* How many elements each of n structures holds
LenSplits(n) == {ls \in [1..n -> 0..MaxElems] : SumSeq(ls) <= MaxElems}

\* Structure k's elements out of the flat element list es
BodyOf(ls, es, k) ==
    LET before == SumSeq(SubSeq(ls, 1, k - 1))
    IN SubSeq(es, before + 1, before + ls[k])

FileDescs ==
    UNION { UNION { { [k \in 1..n |-> BodyOf(ls, es, k)] :
                        es \in [1..SumSeq(ls) -> Elems] } :
                    ls \in LenSplits(n) } :
            n \in 0..NumNames }

\* GDSII strings are padded with one NUL to an even length
Pad(s) == IF Len(s) % 2 = 1 THEN Append(s, 0) ELSE s
\* Integers as they lie in the buffer after big_endian_swap16 / 32
HostInt16(v) == <<v % 256, v \div 256>>
HostInt32(v) == <<v % 256, (v \div 256) % 256, 0, 0>>
\* The k-th vertex (k = 1..n) of the boundary that is element e of structure s:
\* no two vertices of a file share a coordinate
VertexX(s, e, k) == 4 * (k + (MaxPairs + 1) * (e + (MaxElems + 1) * s))
VertexY(s, e, k) == VertexX(s, e, k) + 2

RECURSIVE XYData(_, _, _, _)
XYData(s, e, k, n) ==
    IF k > n THEN <<>>
    ELSE HostInt32(VertexX(s, e, k)) \o HostInt32(VertexY(s, e, k))
         \o XYData(s, e, k + 1, n)

Rec(t, d) == [type |-> t, data |-> d]
RecLen(r) == 4 + Len(r.data)

\* BGNLIB / BGNSTR carry time stamps (year, month, ...: 16-bit integers); the
\* model keeps the first two of them
StampData == HostInt16(2020) \o HostInt16(11)

\* The records of element e of structure s
ElemRecords(body, s, e) ==
    IF body[e][1] = "BOUNDARY"
    THEN << Rec("BOUNDARY", <<>>), Rec("LAYER", HostInt16(0)),
            Rec("DATATYPE", HostInt16(0)), Rec("XY", XYData(s, e, 1, body[e][2])),
            Rec("ENDEL", <<>>) >>
    ELSE << Rec("SREF", <<>>), Rec("SNAME", Pad(Name(body[e][2]))),
            Rec("XY", HostInt32(0) \o HostInt32(0)), Rec("ENDEL", <<>>) >>

RECURSIVE BodyRecords(_, _, _)
BodyRecords(body, s, e) ==
    IF e > Len(body) THEN <<>>
    ELSE ElemRecords(body, s, e) \o BodyRecords(body, s, e + 1)

RECURSIVE StructRecords(_, _)
StructRecords(desc, k) ==
    IF k > Len(desc) THEN <<>>
    ELSE << Rec("BGNSTR", StampData), Rec("STRNAME", Pad(Name(k))) >>
         \o BodyRecords(desc[k], k, 1) \o << Rec("ENDSTR", <<>>) >>
         \o StructRecords(desc, k + 1)

\* The units record: two 8-byte reals, no byte of which is 0 here
UnitsData == [k \in 1..16 |-> 255]

FileRecords(desc) ==
    << Rec("BGNLIB", StampData), Rec("UNITS", UnitsData) >>
    \o StructRecords(desc, 1) \o << Rec("ENDLIB", <<>>) >>

Files == { FileRecords(d) : d \in FileDescs }

\* Byte offset of record k (1-based) in the file: ftell before reading it
RECURSIVE OffsetOf(_, _)
OffsetOf(f, k) == IF k <= 1 THEN 0 ELSE OffsetOf(f, k - 1) + RecLen(f[k - 1])

FileSize(f) == OffsetOf(f, Len(f) + 1)

(***************************************************************************)
(* The Map and the Array of RawCell pointers, keyed / compared as the code *)
(* uses them.  A dependency slot holds either an allocated name (a char    *)
(* pointer                                                                 *)
(* cast to a RawCell pointer) or a RawCell; the two are never equal.       *)
(***************************************************************************)
EmptyMap == [k \in {} |-> NULL]
MapGet(m, key) == IF key \in DOMAIN m THEN m[key] ELSE NULL
MapHasKey(m, key) == key \in DOMAIN m
MapSet(m, key, v) == [k \in DOMAIN m \cup {key} |-> IF k = key THEN v ELSE m[k]]
MapCount(m) == Cardinality(DOMAIN m)
MapValues(m) == {m[k] : k \in DOMAIN m}

NameSlot(n) == [tag |-> "name", val |-> n]
CellSlot(c) == [tag |-> "cell", val |-> c]
ArrayContains(a, slot) == \E i \in 1..Len(a) : a[i] = slot
\* items[index] = items[--count]
RemoveUnordered(a, i) ==
    IF i = Len(a) THEN SubSeq(a, 1, Len(a) - 1)
    ELSE [SubSeq(a, 1, Len(a) - 1) EXCEPT ![i] = a[Len(a)]]

(***************************************************************************)
(* RawCell objects.  name <<>> is a NULL name; data.alloc says whether     *)
(* `data` points to a buffer, which then holds `count` bytes of the input  *)
(* file from byte position `from` on.                                      *)
(***************************************************************************)
NoName == <<>>
NoData == [alloc |-> FALSE, from |-> 0, count |-> 0]
\* allocate_clear(sizeof(RawCell))
ClearedCell ==
    [name |-> NoName, source |-> FALSE, offset |-> 0, size |-> 0,
     data |-> NoData, dependencies |-> <<>>]

\* if (str[data_length - 1] == 0) data_length--; then the copy of data_length bytes
StripNul(d) ==
    IF Len(d) > 0 /\ d[Len(d)] = 0 THEN SubSeq(d, 1, Len(d) - 1) ELSE d

(***************************************************************************)
(* read_rawcells, one record at a time.  A loader state L is               *)
(* [cells, result, rawcell, uses].                                         *)
(***************************************************************************)
LoaderInit == [cells |-> <<>>, result |-> EmptyMap, rawcell |-> NULL, uses |-> 0]

\* OnBGNSTR with the offset taken after the record instead of before it
OnBGNSTR_OffsetAfterRecord(L, ftell, record_length) ==
    [L EXCEPT !.cells = Append(@, [ClearedCell EXCEPT
                                     !.source = TRUE,
                                     !.offset = ftell,
                                     !.size = record_length]),
              !.rawcell = Len(L.cells) + 1,
              !.uses = @ + 1]

\* OnBGNSTR without source->uses++
OnBGNSTR_ForgetsUse(L, ftell, record_length) ==
    [L EXCEPT !.cells = Append(@, [ClearedCell EXCEPT
                                     !.source = TRUE,
                                     !.offset = ftell - record_length,
                                     !.size = record_length]),
              !.rawcell = Len(L.cells) + 1]

\* case 0x05: ftell is the position after the record
OnBGNSTR(L, ftell, record_length) ==
    [L EXCEPT !.cells = Append(@, [ClearedCell EXCEPT
                                     !.source = TRUE,
                                     !.offset = ftell - record_length,
                                     !.size = record_length]),
              !.rawcell = Len(L.cells) + 1,
              !.uses = @ + 1]

\* OnSTRNAME keeping the padding NUL in the name
OnSTRNAME_KeepsPadding(L, r) ==
    IF L.rawcell = NULL THEN L
    ELSE [L EXCEPT !.cells[L.rawcell].name = r.data,
                   !.cells[L.rawcell].size = @ + RecLen(r),
                   !.result = MapSet(@, r.data, L.rawcell)]

\* case 0x06
OnSTRNAME(L, r) ==
    IF L.rawcell = NULL THEN L
    ELSE [L EXCEPT !.cells[L.rawcell].name = StripNul(r.data),
                   !.cells[L.rawcell].size = @ + RecLen(r),
                   !.result = MapSet(@, StripNul(r.data), L.rawcell)]

\* case 0x07
OnENDSTR(L, r) ==
    IF L.rawcell = NULL THEN L
    ELSE [L EXCEPT !.cells[L.rawcell].size = @ + RecLen(r), !.rawcell = NULL]

\* case 0x12
OnSNAME(L, r) ==
    IF L.rawcell = NULL THEN L
    ELSE [L EXCEPT !.cells[L.rawcell].dependencies = Append(@, NameSlot(StripNul(r.data))),
                   !.cells[L.rawcell].size = @ + RecLen(r)]

\* default
OnOther(L, r) ==
    IF L.rawcell = NULL THEN L
    ELSE [L EXCEPT !.cells[L.rawcell].size = @ + RecLen(r)]

\* ResolveLoop stepping the cursor after it removed a slot
RECURSIVE ResolveLoop_StepsAfterRemove(_, _, _, _)
ResolveLoop_StepsAfterRemove(deps, i, map, missing) ==
    IF i > Len(deps) THEN [deps |-> deps, missing |-> missing]
    ELSE LET name == deps[i].val
             rc == MapGet(map, name)
         IN IF rc /= NULL
            THEN IF ArrayContains(deps, CellSlot(rc))
                 THEN ResolveLoop_StepsAfterRemove(RemoveUnordered(deps, i), i + 1, map,
                                                   missing)
                 ELSE ResolveLoop_StepsAfterRemove([deps EXCEPT ![i] = CellSlot(rc)],
                                                   i + 1, map, missing)
            ELSE ResolveLoop_StepsAfterRemove(RemoveUnordered(deps, i), i + 1, map, TRUE)

\* ResolveLoop keeping the slot of a name the map does not hold
RECURSIVE ResolveLoop_KeepsMissing(_, _, _, _)
ResolveLoop_KeepsMissing(deps, i, map, missing) ==
    IF i > Len(deps) THEN [deps |-> deps, missing |-> missing]
    ELSE LET name == deps[i].val
             rc == MapGet(map, name)
         IN IF rc /= NULL
            THEN IF ArrayContains(deps, CellSlot(rc))
                 THEN ResolveLoop_KeepsMissing(RemoveUnordered(deps, i), i, map, missing)
                 ELSE ResolveLoop_KeepsMissing([deps EXCEPT ![i] = CellSlot(rc)],
                                               i + 1, map, missing)
            ELSE ResolveLoop_KeepsMissing(deps, i + 1, map, TRUE)

\* case 0x04, the inner loop over one entity's dependencies from cursor i on:
\* [deps, missing] when the loop ends
RECURSIVE ResolveLoop(_, _, _, _)
ResolveLoop(deps, i, map, missing) ==
    IF i > Len(deps) THEN [deps |-> deps, missing |-> missing]
    ELSE LET name == deps[i].val
             rc == MapGet(map, name)
         IN IF rc /= NULL
            THEN IF ArrayContains(deps, CellSlot(rc))
                 THEN ResolveLoop(RemoveUnordered(deps, i), i, map, missing)
                 ELSE ResolveLoop([deps EXCEPT ![i] = CellSlot(rc)], i + 1, map, missing)
            ELSE ResolveLoop(RemoveUnordered(deps, i), i, map, TRUE)

\* case 0x04, the outer loop: only the entities in the map are visited
ResolveAll(cs, map) ==
    [c \in 1..Len(cs) |->
        IF c \in MapValues(map)
        THEN [cs[c] EXCEPT !.dependencies = ResolveLoop(@, 1, map, FALSE).deps]
        ELSE cs[c]]

AnyMissing(cs, map) ==
    \E c \in MapValues(map) : ResolveLoop(cs[c].dependencies, 1, map, FALSE).missing

OnENDLIB(L) == [L EXCEPT !.cells = ResolveAll(L.cells, L.result), !.rawcell = NULL]

\* One iteration of the while loop on record k of file f
ReadStep(L, f, k) ==
    LET r == f[k]
    IN CASE r.type = "ENDLIB" -> OnENDLIB(L)
         [] r.type = "BGNSTR" -> OnBGNSTR(L, OffsetOf(f, k + 1), RecLen(r))
         [] r.type = "STRNAME" -> OnSTRNAME(L, r)
         [] r.type = "ENDSTR" -> OnENDSTR(L, r)
         [] r.type = "SNAME" -> OnSNAME(L, r)
         [] OTHER -> OnOther(L, r)

\* The loader state when read_rawcells returns from ENDLIB
RECURSIVE LoadFrom(_, _, _)
LoadFrom(L, f, k) ==
    IF k > Len(f) THEN L
    ELSE IF f[k].type = "ENDLIB" THEN ReadStep(L, f, k)
    ELSE LoadFrom(ReadStep(L, f, k), f, k + 1)

LoadFile(f) == LoadFrom(LoaderInit, f, 1)

(***************************************************************************)
(* The shared RawSource and the error codes.                               *)
(***************************************************************************)
NoSource == [uses |-> 0, open |-> FALSE, closes |-> 0, freed |-> FALSE, stale |-> 0]
NoOut == [cell |-> NULL, from |-> 0, count |-> 0, err |-> "NoError"]
NoGd == [state |-> "idle", cell |-> NULL, recursive |-> FALSE, map |-> EmptyMap,
         path |-> <<>>]
NoGp == [state |-> "idle", cell |-> NULL, depth |-> 0, calls |-> <<>>, streams |-> 0]
NoRp == [item |-> NULL, i |-> 0]

\* ReleaseSource closing the stream when one other holder is left
ReleaseSource_ClosesOneEarly(s) ==
    IF s.freed THEN [s EXCEPT !.stale = @ + 1]
    ELSE IF s.uses - 1 <= 1
         THEN [s EXCEPT !.uses = @ - 1, !.open = FALSE, !.closes = @ + 1, !.freed = TRUE]
         ELSE [s EXCEPT !.uses = @ - 1]

\* source->uses--; if (source->uses == 0) { fclose(source->file); free_allocation(source); }
\* A use of the handle after it was freed is counted in `stale`.
ReleaseSource(s) ==
    IF s.freed THEN [s EXCEPT !.stale = @ + 1]
    ELSE IF s.uses - 1 = 0
         THEN [s EXCEPT !.uses = 0, !.open = FALSE, !.closes = @ + 1, !.freed = TRUE]
         ELSE [s EXCEPT !.uses = @ - 1]

\* RawCell::clear on a cell record
ClearCell(c) ==
    [c EXCEPT !.name = NoName,
              !.source = FALSE,
              !.offset = IF c.source THEN 0 ELSE @,
              !.data = IF c.source THEN @ ELSE NoData,
              !.size = 0,
              !.dependencies = <<>>]

\* RawSource::offset_read(data, size, off): the bytes [off, off + size) of the file when
\* the read succeeds, fewer when it is short
OffsetRead(size, off, ok) ==
    IF ok /\ off + size <= FileSize(file)
    THEN [alloc |-> TRUE, from |-> off, count |-> size]
    ELSE [alloc |-> TRUE, from |-> off, count |-> 0]

(***************************************************************************)
(* read_rawcells as actions: one per branch of the record switch.          *)
(***************************************************************************)
UnusedByLoad == <<gd, gp_stack, start_id, polygons, gp, rp>>

LoaderState == [cells |-> cells, result |-> result, rawcell |-> rawcell, uses |-> source.uses]

\* gdsii_read_record delivers record idx + 1 of the file
NextIs(types) == pc = "reading" /\ idx < Len(file) /\ file[idx + 1].type \in types

Apply(L) ==
    /\ cells' = L.cells
    /\ result' = L.result
    /\ rawcell' = L.rawcell
    /\ source' = [source EXCEPT !.uses = L.uses]
    /\ idx' = idx + 1

\* fopen succeeded
OpenSource ==
    /\ pc = "start"
    /\ source' = [source EXCEPT !.open = TRUE]
    /\ pc' = "reading"
    /\ UNCHANGED <<file, idx, cells, result, rawcell, td, error_code, out, UnusedByLoad>>

\* fopen failed
OpenFails ==
    /\ pc = "start"
    /\ error_code' = "InputFileOpenError"
    /\ pc' = "failed"
    /\ UNCHANGED <<file, idx, cells, result, rawcell, source, td, out, UnusedByLoad>>

ReadBGNSTR ==
    /\ NextIs({"BGNSTR"})
    /\ Apply(ReadStep(LoaderState, file, idx + 1))
    /\ UNCHANGED <<file, pc, td, error_code, out, UnusedByLoad>>

ReadSTRNAME ==
    /\ NextIs({"STRNAME"})
    /\ Apply(ReadStep(LoaderState, file, idx + 1))
    /\ UNCHANGED <<file, pc, td, error_code, out, UnusedByLoad>>

ReadENDSTR ==
    /\ NextIs({"ENDSTR"})
    /\ Apply(ReadStep(LoaderState, file, idx + 1))
    /\ UNCHANGED <<file, pc, td, error_code, out, UnusedByLoad>>

ReadSNAME ==
    /\ NextIs({"SNAME"})
    /\ Apply(ReadStep(LoaderState, file, idx + 1))
    /\ UNCHANGED <<file, pc, td, error_code, out, UnusedByLoad>>

ReadOther ==
    /\ pc = "reading" /\ idx < Len(file)
    /\ file[idx + 1].type \notin {"ENDLIB", "BGNSTR", "STRNAME", "ENDSTR", "SNAME"}
    /\ Apply(ReadStep(LoaderState, file, idx + 1))
    /\ UNCHANGED <<file, pc, td, error_code, out, UnusedByLoad>>

\* ENDLIB: the resolution pass, the close of an unused source, the return
ReadENDLIB ==
    /\ NextIs({"ENDLIB"})
    /\ cells' = ResolveAll(cells, result)
    /\ error_code' = IF AnyMissing(cells, result) THEN "MissingReference" ELSE error_code
    /\ source' = IF source.uses = 0
                 THEN [source EXCEPT !.open = FALSE, !.closes = @ + 1, !.freed = TRUE]
                 ELSE source
    /\ idx' = idx + 1
    /\ pc' = "returned"
    /\ UNCHANGED <<file, result, rawcell, td, out, UnusedByLoad>>

\* gdsii_read_record returns an error (the stream ends, or the read fails): the
\* loop is left, and source->uses++ guards the source during the teardown
ReadFails ==
    /\ pc = "reading"
    /\ \E err \in {"InputFileError"} : error_code' = err
    /\ source' = [source EXCEPT !.uses = @ + 1]
    /\ td' = DOMAIN result
    /\ pc' = "teardown"
    /\ UNCHANGED <<file, idx, cells, result, rawcell, out, UnusedByLoad>>

\* Teardown of one map item whose dependency list is empty: the inner loop is
\* skipped and the cell is cleared
TeardownItem ==
    /\ pc = "teardown"
    /\ \E key \in td :
         /\ cells[result[key]].dependencies = <<>>
         /\ rawcell' = result[key]
         /\ source' = IF cells[result[key]].source THEN ReleaseSource(source) ELSE source
         /\ cells' = [cells EXCEPT ![result[key]] = ClearCell(@)]
         /\ td' = td \ {key}
    /\ UNCHANGED <<file, pc, idx, result, error_code, out, UnusedByLoad>>

\* Teardown of a map item with dependencies: `for (i = 0; i < count;)` frees slot 0
\* and changes neither i nor count, so the loop does not end
TeardownSpins ==
    /\ pc \in {"teardown", "spinning"}
    /\ \E key \in td :
         /\ cells[result[key]].dependencies /= <<>>
         /\ rawcell' = result[key]
    /\ pc' = "spinning"
    /\ UNCHANGED <<file, idx, cells, result, source, td, error_code, out, UnusedByLoad>>

\* After the last item: fclose, free, result.clear(), InvalidFile
TeardownEnds ==
    /\ pc = "teardown" /\ td = {}
    /\ source' = [source EXCEPT !.open = FALSE, !.closes = @ + 1, !.freed = TRUE]
    /\ result' = EmptyMap
    /\ error_code' = "InvalidFile"
    /\ pc' = "failed"
    /\ UNCHANGED <<file, idx, cells, rawcell, td, out, UnusedByLoad>>

(***************************************************************************)
(* RawCell::clear and RawCell::to_gds, called by the owner of the map      *)
(* read_rawcells returned.                                                 *)
(***************************************************************************)
\* Clear releasing the source whether or not the entity holds it
Clear_ReleasesAgain(c) ==
    /\ pc = "returned"
    /\ source' = ReleaseSource(source)
    /\ cells' = [cells EXCEPT ![c] = ClearCell(@)]
    /\ UNCHANGED <<file, pc, idx, result, rawcell, td, error_code, out, UnusedByLoad>>

Clear(c) ==
    /\ pc = "returned"
    /\ source' = IF cells[c].source THEN ReleaseSource(source) ELSE source
    /\ cells' = [cells EXCEPT ![c] = ClearCell(@)]
    /\ UNCHANGED <<file, pc, idx, result, rawcell, td, error_code, out, UnusedByLoad>>

\* ToGds returning at the failed read, before the source is released
ToGds_ReturnsAtFailedRead(c, ok) ==
    /\ pc = "returned"
    /\ IF cells[c].source
       THEN LET got == OffsetRead(cells[c].size, cells[c].offset, ok /\ source.open)
                bad == got.count /= cells[c].size
                size == IF bad THEN 0 ELSE cells[c].size
            IN /\ cells' = [cells EXCEPT ![c].data = got, ![c].size = size,
                                         ![c].source = bad]
               /\ source' = IF bad THEN source ELSE ReleaseSource(source)
               /\ out' = [cell |-> c, from |-> got.from, count |-> size,
                          err |-> IF bad THEN "InputFileError" ELSE "NoError"]
       ELSE /\ out' = [cell |-> c, from |-> cells[c].data.from, count |-> cells[c].size,
                       err |-> "NoError"]
            /\ UNCHANGED <<cells, source>>
    /\ UNCHANGED <<file, pc, idx, result, rawcell, td, error_code, UnusedByLoad>>

\* to_gds of cell c; ok says whether offset_read delivers all the bytes
ToGds(c, ok) ==
    /\ pc = "returned"
    /\ IF cells[c].source
       THEN LET got == OffsetRead(cells[c].size, cells[c].offset, ok /\ source.open)
                bad == got.count /= cells[c].size
                size == IF bad THEN 0 ELSE cells[c].size
            IN /\ cells' = [cells EXCEPT ![c].data = got, ![c].size = size,
                                         ![c].source = FALSE]
               /\ source' = ReleaseSource(IF source.open THEN source
                                          ELSE [source EXCEPT !.stale = @ + 1])
               /\ out' = [cell |-> c, from |-> got.from, count |-> size,
                          err |-> IF bad THEN "InputFileError" ELSE "NoError"]
       ELSE /\ out' = [cell |-> c, from |-> cells[c].data.from, count |-> cells[c].size,
                       err |-> "NoError"]
            /\ UNCHANGED <<cells, source>>
    /\ UNCHANGED <<file, pc, idx, result, rawcell, td, error_code, UnusedByLoad>>

InitLoad ==
    /\ file \in Files
    /\ pc = "start"
    /\ idx = 0
    /\ cells = <<>>
    /\ result = EmptyMap
    /\ rawcell = NULL
    /\ source = NoSource
    /\ td = {}
    /\ error_code = "NoError"
    /\ out = NoOut
    /\ gd = NoGd
    /\ gp_stack = <<>>
    /\ start_id = 0
    /\ polygons = <<>>
    /\ gp = NoGp
    /\ rp = NoRp

NextLoad ==
    \/ OpenSource
    \/ OpenFails
    \/ ReadBGNSTR
    \/ ReadSTRNAME
    \/ ReadENDSTR
    \/ ReadSNAME
    \/ ReadOther
    \/ ReadENDLIB
    \/ ReadFails
    \/ TeardownItem
    \/ TeardownSpins
    \/ TeardownEnds
    \/ \E c \in MapValues(result) : Clear(c)
    \/ \E c \in MapValues(result), ok \in BOOLEAN : ToGds(c, ok)

SpecLoad == InitLoad /\ [][NextLoad]_vars

(***************************************************************************)
(* RawCell::get_dependencies.  A call state is [map, diverged, path]: the  *)
(* accumulator, whether the recursion was found not to end, and the calls  *)
(* in progress, outermost first, each as <<cell, accumulator at entry>>.   *)
(* The function is deterministic in (cell, accumulator): a call that       *)
(* re-enters a cell with the accumulator an enclosing call of that cell    *)
(* was entered with repeats that call, and the recursion never returns.    *)
(***************************************************************************)
\* get_dependencies without the recursive call
RECURSIVE get_dependencies_SkipsDescent(_, _, _, _, _)
get_dependencies_SkipsDescent(cs, c, recursive, acc, i) ==
    IF i > Len(cs[c].dependencies) THEN acc
    ELSE LET rc == cs[c].dependencies[i].val
         IN get_dependencies_SkipsDescent(
                cs, c, recursive, [acc EXCEPT !.map = MapSet(@, cs[rc].name, rc)], i + 1)

RECURSIVE get_dependencies(_, _, _, _, _)
get_dependencies(cs, c, recursive, acc, i) ==
    IF acc.diverged \/ i > Len(cs[c].dependencies) THEN acc
    ELSE LET rc == cs[c].dependencies[i].val
             callee == <<rc, acc.map>>
             after ==
                 IF recursive /\ MapGet(acc.map, cs[rc].name) /= rc
                 THEN IF \E k \in 1..Len(acc.path) : acc.path[k] = callee
                      THEN [acc EXCEPT !.diverged = TRUE, !.path = Append(@, callee)]
                      ELSE LET sub == get_dependencies(
                                          cs, rc, TRUE,
                                          [acc EXCEPT !.path = Append(@, callee)], 1)
                           IN IF sub.diverged THEN sub ELSE [sub EXCEPT !.path = acc.path]
                 ELSE acc
         IN IF after.diverged THEN after
            ELSE get_dependencies(
                     cs, c, recursive,
                     [after EXCEPT !.map = MapSet(@, cs[rc].name, rc)], i + 1)

\* A call on cell c with the accumulator `map`
GetDependencies(cs, c, recursive, map) ==
    get_dependencies(cs, c, recursive,
                     [map |-> map, diverged |-> FALSE, path |-> << <<c, map>> >>], 1)

\* rawcell_object_dependencies: a fresh accumulator per call
Dependencies(c, recursive) ==
    /\ gd.state \in {"idle", "done"}
    /\ LET r == GetDependencies(cells, c, recursive, EmptyMap)
       IN gd' = [state |-> IF r.diverged THEN "diverged" ELSE "done",
                 cell |-> c, recursive |-> recursive, map |-> r.map,
                 path |-> [k \in 1..Len(r.path) |-> r.path[k][1]]]
    /\ UNCHANGED <<file, pc, idx, cells, result, rawcell, source, td, error_code, out,
                   gp_stack, start_id, polygons, gp, rp>>

\* The state in which read_rawcells returned the entities of the file
LoadedFile ==
    /\ LET before == LoadFrom(LoaderInit, SubSeq(file, 1, Len(file) - 1), 1)
           L == LoadFile(file)
       IN /\ cells = L.cells
          /\ result = L.result
          /\ rawcell = L.rawcell
          /\ source = [NoSource EXCEPT !.uses = L.uses, !.open = L.uses > 0,
                                       !.closes = IF L.uses = 0 THEN 1 ELSE 0,
                                       !.freed = L.uses = 0]
          /\ error_code = IF AnyMissing(before.cells, before.result)
                          THEN "MissingReference" ELSE "NoError"
    /\ pc = "returned"
    /\ idx = Len(file)
    /\ td = {}
    /\ out = NoOut
    /\ rp = NoRp

Loaded == file \in Files /\ LoadedFile

InitDeps ==
    /\ Loaded
    /\ gd = NoGd
    /\ gp_stack = <<>>
    /\ start_id = 0
    /\ polygons = <<>>
    /\ gp = NoGp

NextDeps == \E c \in MapValues(result), recursive \in BOOLEAN : Dependencies(c, recursive)

SpecDeps == InitDeps /\ [][NextDeps]_vars

(***************************************************************************)
(* RawCell::get_polygons.  Each activation has its own stream, position    *)
(* and record buffer; start_id, polygons and *error_code are shared.       *)
(***************************************************************************)
\* deepest finite depth a top-level call is given
MaxDepth == 1

MaxOf(a, b) == IF a > b THEN a ELSE b
\* The part of `buffer + 4` the records of the model can write
BufLen == MaxOf(Len(UnitsData), 8 * (MaxPairs + 1))
\* A byte of the buffer no record has written yet
Indeterminate == -1

\* gdsii_read_record puts the payload at the start of the buffer; what lay
\* beyond its end stays
Overlay(buf, data) == [k \in 1..BufLen |-> IF k <= Len(data) THEN data[k] ELSE buf[k]]

\* The C string at `str`
CStr(buf) ==
    LET nul == {k \in 1..BufLen : buf[k] = 0}
    IN IF nul = {} THEN buf
       ELSE SubSeq(buf, 1, (CHOOSE k \in nul : \A j \in nul : k <= j) - 1)

\* strncmp(str, name, n) == 0
StrNCmpEq(buf, name, n) ==
    LET ch(k) == IF k <= Len(name) THEN name[k] ELSE 0
    IN \A k \in 1..n : (\A j \in 1..(k - 1) : buf[j] /= 0) => buf[k] = ch(k)

\* data32[w]
Word32(buf, w) == buf[4 * w + 1] + 256 * buf[4 * w + 2]

\* gdsii_real_to_double of the two reals of the units record, as fractions
DbInUser == <<1, 2>>
DbInMeters == <<1, 4>>
\* (int32_t)(factor * v), for v >= 0
Scale(factor, v) == (factor[1] * v) \div factor[2]

\* The XY loop: for (i = 0; i < data_length; i += 4)
RECURSIVE XYLoop(_, _, _, _, _)
XYLoop(buf, i, data_length, factor, id) ==
    IF i >= data_length THEN <<>>
    ELSE << <<Scale(factor, Word32(buf, i)), Scale(factor, Word32(buf, i + 1)), id>> >>
         \o XYLoop(buf, i + 4, data_length, factor, id)

\* The locals of a call as it starts scanning
NewFrame(c, depth) ==
    [cell |-> c, depth |-> depth, idx |-> 0,
     buffer |-> [k \in 1..BufLen |-> Indeterminate],
     target_cell_found |-> FALSE, found_polygon |-> FALSE, factor |-> <<1, 1>>]

Top == gp_stack[Len(gp_stack)]
SetTop(f) == [gp_stack EXCEPT ![Len(gp_stack)] = f]
UnusedByPolygons == <<file, pc, idx, cells, result, rawcell, source, td, out, gd, rp>>

\* The record the top activation reads next, and the activation after it is read
Scanning == gp.state = "running" /\ gp_stack /= <<>> /\ Top.idx < Len(file)
NextRecord == file[Top.idx + 1]
AfterRead == [Top EXCEPT !.idx = @ + 1, !.buffer = Overlay(@, NextRecord.data)]

\* The depth handed to a nested call
NestedDepth(depth) == -1

\* ExpandsInstances ignoring the depth
ExpandsInstances_AtAnyDepth(depth) == TRUE

\* if (depth != 0): whether an instance record is looked up at all
ExpandsInstances(depth) == depth /= 0

\* A top-level call (rawcell_object_get_polygons): fopen succeeds or fails
GetPolygons(c, depth, opens) ==
    /\ gp.state = "idle"
    /\ IF opens
       THEN /\ gp_stack' = <<NewFrame(c, depth)>>
            /\ gp' = [gp EXCEPT !.state = "running", !.cell = c, !.depth = depth,
                                !.streams = @ + 1]
            /\ UNCHANGED error_code
       ELSE /\ gp' = [gp EXCEPT !.state = "done", !.cell = c, !.depth = depth]
            /\ error_code' = "InputFileOpenError"
            /\ UNCHANGED gp_stack
    /\ UNCHANGED <<start_id, polygons, UnusedByPolygons>>

\* The streams opened by get_polygons calls that are open: the function holds
\* no fclose, so all that were opened
OpenStreams == gp.streams

\* The return of the top activation to its caller
Return(stack) ==
    /\ gp_stack' = SubSeq(stack, 1, Len(stack) - 1)
    /\ gp' = IF Len(stack) = 1 THEN [gp EXCEPT !.state = "done"] ELSE gp

\* GpReadFails leaving the error code as it is
GpReadFails_KeepsCode ==
    /\ gp.state = "running" /\ gp_stack /= <<>>
    /\ Return(gp_stack)
    /\ UNCHANGED <<error_code, start_id, polygons, UnusedByPolygons>>

\* gdsii_read_record fails: the loop is left and the call returns
GpReadFails ==
    /\ gp.state = "running" /\ gp_stack /= <<>>
    /\ error_code' = "InputFileError"
    /\ Return(gp_stack)
    /\ UNCHANGED <<start_id, polygons, UnusedByPolygons>>

GpENDLIB ==
    /\ Scanning /\ NextRecord.type = "ENDLIB"
    /\ Return(gp_stack)
    /\ UNCHANGED <<start_id, polygons, error_code, UnusedByPolygons>>

GpUNITS ==
    /\ Scanning /\ NextRecord.type = "UNITS"
    /\ gp_stack' = SetTop([AfterRead EXCEPT !.factor = DbInUser])
    /\ UNCHANGED <<gp, start_id, polygons, error_code, UnusedByPolygons>>

GpSTRNAME ==
    /\ Scanning /\ NextRecord.type = "STRNAME"
    /\ gp_stack' = SetTop([AfterRead EXCEPT !.target_cell_found =
           @ \/ StrNCmpEq(AfterRead.buffer, cells[Top.cell].name, Len(NextRecord.data))])
    /\ UNCHANGED <<gp, start_id, polygons, error_code, UnusedByPolygons>>

\* SREF / AREF
GpSREF ==
    /\ Scanning /\ NextRecord.type \in {"SREF", "AREF"}
    /\ IF Top.target_cell_found /\ ExpandsInstances(Top.depth)
       THEN LET deps == GetDependencies(cells, Top.cell, TRUE, EmptyMap)
                str == CStr(AfterRead.buffer)
            IN IF deps.diverged
               THEN /\ gp' = [gp EXCEPT !.state = "diverged"]
                    /\ gp_stack' = SetTop(AfterRead)
                    /\ UNCHANGED error_code
               ELSE IF MapHasKey(deps.map, str)
               THEN \E opens \in BOOLEAN :
                      LET ref == deps.map[str]
                          call == [caller |-> Top.cell, caller_depth |-> Top.depth,
                                   callee |-> ref, depth |-> NestedDepth(Top.depth)]
                      IN IF opens
                         THEN /\ gp_stack' = Append(SetTop(AfterRead),
                                                    NewFrame(ref, NestedDepth(Top.depth)))
                              /\ gp' = [gp EXCEPT !.calls = Append(@, call),
                                                  !.streams = @ + 1]
                              /\ UNCHANGED error_code
                         ELSE /\ gp_stack' = SetTop(AfterRead)
                              /\ gp' = [gp EXCEPT !.calls = Append(@, call)]
                              /\ error_code' = "InputFileOpenError"
               ELSE /\ gp_stack' = SetTop(AfterRead)
                    /\ UNCHANGED <<gp, error_code>>
       ELSE /\ gp_stack' = SetTop(AfterRead)
            /\ UNCHANGED <<gp, error_code>>
    /\ UNCHANGED <<start_id, polygons, UnusedByPolygons>>

\* BOUNDARY / BOX
GpBOUNDARY ==
    /\ Scanning /\ NextRecord.type \in {"BOUNDARY", "BOX"}
    /\ gp_stack' = SetTop([AfterRead EXCEPT !.found_polygon = @ \/ Top.target_cell_found])
    /\ UNCHANGED <<gp, start_id, polygons, error_code, UnusedByPolygons>>

\* GpXY leaving the polygon id as it is
GpXY_KeepsId ==
    /\ Scanning /\ NextRecord.type = "XY"
    /\ gp_stack' = SetTop(AfterRead)
    /\ IF Top.found_polygon
       THEN /\ polygons' = polygons \o XYLoop(AfterRead.buffer, 0,
                                              Len(NextRecord.data) \div 4,
                                              Top.factor, start_id)
            /\ UNCHANGED start_id
       ELSE UNCHANGED <<polygons, start_id>>
    /\ UNCHANGED <<gp, error_code, UnusedByPolygons>>

GpXY ==
    /\ Scanning /\ NextRecord.type = "XY"
    /\ gp_stack' = SetTop(AfterRead)
    /\ IF Top.found_polygon
       THEN /\ polygons' = polygons \o XYLoop(AfterRead.buffer, 0,
                                              Len(NextRecord.data) \div 4,
                                              Top.factor, start_id)
            /\ start_id' = start_id + 1
       ELSE UNCHANGED <<polygons, start_id>>
    /\ UNCHANGED <<gp, error_code, UnusedByPolygons>>

GpENDEL ==
    /\ Scanning /\ NextRecord.type = "ENDEL"
    /\ gp_stack' = SetTop([AfterRead EXCEPT !.found_polygon =
                                                IF Top.target_cell_found THEN FALSE ELSE @])
    /\ UNCHANGED <<gp, start_id, polygons, error_code, UnusedByPolygons>>

\* LIBNAME, ENDSTR and the default branch
GpOther ==
    /\ Scanning
    /\ NextRecord.type \notin {"ENDLIB", "UNITS", "STRNAME", "SREF", "AREF", "BOUNDARY",
                                "BOX", "XY", "ENDEL"}
    /\ gp_stack' = SetTop(AfterRead)
    /\ UNCHANGED <<gp, start_id, polygons, error_code, UnusedByPolygons>>

InitPoly ==
    /\ Loaded
    /\ gd = NoGd
    /\ gp_stack = <<>>
    /\ start_id = 0
    /\ polygons = <<>>
    /\ gp = NoGp

NextPoly ==
    \/ \E c \in MapValues(result), depth \in -1..MaxDepth, opens \in BOOLEAN :
         GetPolygons(c, depth, opens)
    \/ GpReadFails
    \/ GpENDLIB
    \/ GpUNITS
    \/ GpSTRNAME
    \/ GpSREF
    \/ GpBOUNDARY
    \/ GpXY
    \/ GpENDEL
    \/ GpOther

SpecPoly == InitPoly /\ [][NextPoly]_vars

(***************************************************************************)
(* What a file holds, read off its records without the loader: the k-th    *)
(* structure runs from the k-th BGNSTR to the k-th ENDSTR.                 *)
(***************************************************************************)
IndexesOf(f, type) == {k \in 1..Len(f) : f[k].type = type}
\* The k-th smallest element of a set of numbers
RECURSIVE Nth(_, _)
Nth(S, k) ==
    LET low == CHOOSE x \in S : \A y \in S : x <= y
    IN IF k = 1 THEN low ELSE Nth(S \ {low}, k - 1)
NumStructs(f) == Cardinality(IndexesOf(f, "BGNSTR"))
StructStart(f, k) == Nth(IndexesOf(f, "BGNSTR"), k)
StructEnd(f, k) == Nth(IndexesOf(f, "ENDSTR"), k)
StructIndexes(f, k) == StructStart(f, k)..StructEnd(f, k)
\* The name a name record spells
Spelled(data) == CHOOSE j \in 1..NumNames : Pad(Name(j)) = data
DefinedNames(f) == {Spelled(f[k].data) : k \in IndexesOf(f, "STRNAME")}
\* The names structure k refers to
ReferredBy(f, k) == {Spelled(f[i].data) : i \in StructIndexes(f, k) \cap IndexesOf(f, "SNAME")}
SlotSet(c) == {cells[c].dependencies[i] : i \in 1..Len(cells[c].dependencies)}
\* read_rawcells has returned and its caller has not yet changed an entity
JustReturned ==
    /\ pc = "returned"
    /\ out.cell = NULL
    /\ \A c \in 1..Len(cells) : cells[c].source

(***************************************************************************)
(* C1: for A depending on B and B on A, get_dependencies(recursive = true) *)
(* on A, from an empty accumulator, terminates with exactly the entries A  *)
(* and B; for A depending on A it terminates with exactly the entry A.     *)
(* The code recurses into B before it inserts B, and from B into A again   *)
(* with the accumulator still empty: the recursion does not end.           *)
(***************************************************************************)
MutualCycle(a, b) ==
    /\ a /= b
    /\ cells[a].dependencies = <<CellSlot(b)>>
    /\ cells[b].dependencies = <<CellSlot(a)>>
SelfCycle(a) == cells[a].dependencies = <<CellSlot(a)>>

C1_CycleQueryTerminates ==
    (gd.state /= "idle" /\ gd.recursive) =>
        /\ \A b \in MapValues(result) :
             MutualCycle(gd.cell, b) =>
                 /\ gd.state = "done"
                 /\ gd.map = [n \in {cells[gd.cell].name, cells[b].name} |-> result[n]]
        /\ SelfCycle(gd.cell) =>
                 /\ gd.state = "done"
                 /\ gd.map = [n \in {cells[gd.cell].name} |-> gd.cell]

(***************************************************************************)
(* C2: when read_rawcells returns from a well-formed stream, the map holds *)
(* as many entries as the stream holds structures, one under each          *)
(* structure's name, each a different entity.                              *)
(***************************************************************************)
C2_OneEntryPerStructure ==
    JustReturned =>
        /\ NumStructs(file) = Cardinality(IndexesOf(file, "ENDSTR"))
        /\ MapCount(result) = NumStructs(file)
        /\ DOMAIN result = {Name(j) : j \in DefinedNames(file)}
        /\ Cardinality(MapValues(result)) = NumStructs(file)
        /\ \A n \in DOMAIN result : cells[result[n]].name = n

C2_Witness == JustReturned /\ MapCount(result) = NumNames /\ idx = Len(file)

(***************************************************************************)
(* C3: when read_rawcells returns at ENDLIB, every dependency slot of      *)
(* every entity of the map is a resolved reference to an entity of the     *)
(* map; no slot still holds a name.                                        *)
(***************************************************************************)
C3_AllSlotsResolved ==
    pc = "returned" =>
        \A c \in MapValues(result) : \A i \in 1..Len(cells[c].dependencies) :
            /\ cells[c].dependencies[i].tag = "cell"
            /\ cells[c].dependencies[i].val \in MapValues(result)

\* an entity with two SNAME records, one of them naming no structure of the file
C3_Witness ==
    /\ JustReturned
    /\ \E k \in 1..NumStructs(file) :
         /\ Cardinality(StructIndexes(file, k) \cap IndexesOf(file, "SNAME")) >= 2
         /\ ReferredBy(file, k) \ DefinedNames(file) /= {}
         /\ Len(cells[k].dependencies) >= 1

(***************************************************************************)
(* C4: when some structure refers to a name the stream does not define,    *)
(* read_rawcells still returns at ENDLIB with every structure in the map   *)
(* and the error code MissingReference; the referring entity has no slot   *)
(* for the missing name, and its defined references are resolved and kept. *)
(***************************************************************************)
HasMissingReference(f) ==
    \E k \in 1..NumStructs(f) : ReferredBy(f, k) \ DefinedNames(f) /= {}

C4_MissingReferenceDropped ==
    (JustReturned /\ HasMissingReference(file)) =>
        /\ error_code = "MissingReference"
        /\ MapCount(result) = NumStructs(file)
        /\ \A k \in 1..NumStructs(file) :
             SlotSet(k) = {CellSlot(result[Name(j)]) :
                             j \in ReferredBy(file, k) \cap DefinedNames(file)}

\* a structure with a missing and a defined reference
C4_Witness ==
    /\ JustReturned
    /\ \E k \in 1..NumStructs(file) :
         /\ ReferredBy(file, k) \ DefinedNames(file) /= {}
         /\ ReferredBy(file, k) \cap DefinedNames(file) /= {}
         /\ Len(cells[k].dependencies) = 1

(***************************************************************************)
(* C5: the offset of an entity is the position of the first byte of its    *)
(* BGNSTR record and its size the length of all records from that BGNSTR   *)
(* through its ENDSTR, so that to_gds of an entity read_rawcells returned  *)
(* writes exactly those bytes of the input file.                           *)
(***************************************************************************)
StructOffset(f, k) == OffsetOf(f, StructStart(f, k))
StructSize(f, k) == OffsetOf(f, StructEnd(f, k) + 1) - OffsetOf(f, StructStart(f, k))

C5_ByteRangeOfStructure ==
    pc = "returned" =>
        /\ \A k \in 1..Len(cells) :
             cells[k].source =>
                 /\ cells[k].offset = StructOffset(file, k)
                 /\ cells[k].size = StructSize(file, k)
        /\ \A k \in 1..Len(cells) :
             (cells[k].data.alloc /\ cells[k].size > 0) =>
                 /\ cells[k].data.from = StructOffset(file, k)
                 /\ cells[k].data.count = StructSize(file, k)
                 /\ cells[k].size = StructSize(file, k)
        /\ (out.cell /= NULL /\ out.count > 0) =>
                 /\ out.from = StructOffset(file, out.cell)
                 /\ out.count = StructSize(file, out.cell)

\* to_gds wrote the second structure of a file, which holds an instance
C5_Witness ==
    /\ pc = "returned"
    /\ out.cell = 2 /\ out.err = "NoError" /\ out.count > 0
    /\ StructIndexes(file, 2) \cap IndexesOf(file, "SNAME") /= {}

(***************************************************************************)
(* C6: get_polygons on a target with no instance and exactly one boundary  *)
(* of N coordinate pairs appends exactly N triples, one per pair in record *)
(* order, all with the same polygon id.                                    *)
(* The XY loop steps its index by 4 over N pairs of 32-bit words: it       *)
(* emits every other pair only.                                            *)
(***************************************************************************)
InstancesIn(f, k) == StructIndexes(f, k) \cap (IndexesOf(f, "SREF") \cup IndexesOf(f, "AREF"))
PolygonsIn(f, k) == StructIndexes(f, k) \cap (IndexesOf(f, "BOUNDARY") \cup IndexesOf(f, "BOX"))
\* The XY record of the boundary whose BOUNDARY record is record i
XYOf(f, i) == f[CHOOSE j \in IndexesOf(f, "XY") : j > i /\ \A m \in IndexesOf(f, "XY") : m > i => j <= m]
\* The triple of the k-th coordinate pair of an XY record, as emitted with id
TripleOf(xy, k, id) ==
    << Scale(DbInUser, Word32(xy.data, 2 * (k - 1))),
       Scale(DbInUser, Word32(xy.data, 2 * (k - 1) + 1)), id >>

C6_OneTriplePerPair ==
    ( /\ gp.state = "done" /\ error_code = "NoError" /\ gp_stack = <<>>
      /\ gp.cell /= NULL
      /\ InstancesIn(file, gp.cell) = {}
      /\ Cardinality(PolygonsIn(file, gp.cell)) = 1 ) =>
        LET xy == XYOf(file, CHOOSE i \in PolygonsIn(file, gp.cell) : TRUE)
            n == Len(xy.data) \div 8
        IN /\ Len(polygons) = n
           /\ \A k \in 1..n : polygons[k] = TripleOf(xy, k, 0)

(***************************************************************************)
(* C7: a get_polygons call with depth = 0 never starts a nested            *)
(* extraction, whatever instance records the stream holds.                 *)
(***************************************************************************)
C7_DepthZeroNeverNests ==
    (gp.state /= "idle" /\ gp.depth = 0) =>
        /\ gp.calls = <<>>
        /\ Len(gp_stack) <= 1
        /\ gp.streams <= 1
        /\ gp.state /= "diverged"

\* the call just read, inside its target, an instance record whose lookup
\* would have found an entity
C7_Witness ==
    /\ gp.state = "running" /\ gp.depth = 0 /\ Len(gp_stack) = 1
    /\ Top.target_cell_found
    /\ Top.idx >= 1 /\ file[Top.idx].type = "SREF"
    /\ LET deps == GetDependencies(cells, Top.cell, TRUE, EmptyMap)
       IN ~deps.diverged /\ MapHasKey(deps.map, CStr(Top.buffer))

(***************************************************************************)
(* C8: get_polygons with depth = -1 on a target with an acyclic dependency *)
(* graph emits the polygons of every structure reachable from the target:  *)
(* for every reachable structure and every boundary in it, the output      *)
(* holds the boundary's vertices (checked here for its first vertex, which *)
(* the XY loop of C6 never skips).                                         *)
(* The instance record is looked up under the bytes the previous records   *)
(* left in the buffer (SREF itself has no payload; the name follows in     *)
(* SNAME), so a referenced structure is expanded only by coincidence, and  *)
(* one that lies before the target in the stream is not scanned at all.    *)
(***************************************************************************)
EdgesOf(c) == {cells[c].dependencies[i].val : i \in 1..Len(cells[c].dependencies)}
RECURSIVE ReachIn(_, _)
ReachIn(S, n) ==
    IF n = 0 THEN S ELSE ReachIn(S \cup UNION {EdgesOf(c) : c \in S}, n - 1)
\* The entities reachable from c by one or more dependency edges
ReachableFrom(c) == ReachIn(EdgesOf(c), Len(cells))
Acyclic(c) == \A d \in ReachableFrom(c) \cup {c} : d \notin ReachableFrom(d)
Emitted(xy, k) ==
    \E j \in 1..Len(polygons) :
        /\ polygons[j][1] = TripleOf(xy, k, 0)[1]
        /\ polygons[j][2] = TripleOf(xy, k, 0)[2]

C8_UnlimitedDepthEmitsReachable ==
    ( /\ gp.state = "done" /\ error_code = "NoError" /\ gp_stack = <<>>
      /\ gp.depth = -1
      /\ Acyclic(gp.cell) ) =>
        \A s \in ReachableFrom(gp.cell) : \A i \in PolygonsIn(file, s) :
            Emitted(XYOf(file, i), 1)

(***************************************************************************)
(* C9: a nested extraction started from a call with the finite depth d is  *)
(* given the depth d - 1; only the sentinel -1 is passed on unchanged.     *)
(* The code passes -1 to every nested call.                                *)
(***************************************************************************)
C9_NestedDepthIsOneLess ==
    \A k \in 1..Len(gp.calls) :
        gp.calls[k].depth = IF gp.calls[k].caller_depth = -1 THEN -1
                            ELSE gp.calls[k].caller_depth - 1

(***************************************************************************)
(* C10: under every order of clear() and to_gds() calls on the entities    *)
(* one read_rawcells call returned, the stream of their shared source is   *)
(* closed exactly once, by the call that releases the last holder: while   *)
(* an entity holds the source it is open, it is never closed twice, and no *)
(* call uses the handle after the close.                                   *)
(***************************************************************************)
Holders == {c \in 1..Len(cells) : cells[c].source}

C10_ClosedOnceByLastHolder ==
    pc = "returned" =>
        /\ source.closes <= 1
        /\ source.stale = 0
        /\ Holders /= {} => (source.open /\ source.closes = 0 /\ ~source.freed)
        /\ Holders = {} => (~source.open /\ source.closes = 1)

\* three entities, all released, by clear() and by to_gds()
C10_Witness ==
    /\ pc = "returned" /\ Len(cells) = 3
    /\ Holders = {} /\ source.closes = 1
    /\ \E c \in 1..Len(cells) : cells[c].name = NoName
    /\ \E c \in 1..Len(cells) : cells[c].data.alloc /\ cells[c].size > 0

(***************************************************************************)
(* C11: when the stream ends or a read fails before ENDLIB, read_rawcells  *)
(* terminates for every partially built map, also one whose entities hold  *)
(* pending dependency names: each name is freed once, every entity is      *)
(* cleared, the stream is closed once, the map is empty and the code is    *)
(* InvalidFile.                                                            *)
(* The inner teardown loop `for (i = 0; i < dependencies->count;)` frees   *)
(* slot 0 and changes neither i nor count: with one pending name it frees  *)
(* the same name again and again and never reaches rawcell->clear().       *)
(***************************************************************************)
C11_TeardownTerminates == pc /= "spinning"

(***************************************************************************)
(* The entities of a loaded file in the hands of the caller: clear() and   *)
(* to_gds() in any order.                                                  *)
(***************************************************************************)
\* clear() and to_gds() read no record: the files with at most one element give
\* every number of entities, with and without a dependency
LifeFiles ==
    { FileRecords(d) : d \in { e \in FileDescs : SumSeq([k \in 1..Len(e) |-> Len(e[k])]) <= 1 } }

InitLife ==
    /\ Loaded
    /\ file \in LifeFiles
    /\ gd = NoGd
    /\ gp_stack = <<>>
    /\ start_id = 0
    /\ polygons = <<>>
    /\ gp = NoGp

NextLife ==
    \/ \E c \in MapValues(result) : Clear(c)
    \/ \E c \in MapValues(result), ok \in BOOLEAN : ToGds(c, ok)

SpecLife == InitLife /\ [][NextLife]_vars

(***************************************************************************)
(* C12: to_gds on an unmaterialized entity whose positioned read fails or  *)
(* is short returns the input-read error, sets the entity's size to 0 and  *)
(* leaves it without a source; whether the read succeeds or fails the call *)
(* decrements the source's use-count exactly once, and a to_gds on an      *)
(* entity that holds no source leaves the source alone.                    *)
(***************************************************************************)
\* the step is a to_gds call on c, which held the source before it
MaterializedBy(c) == cells[c].source /\ ~cells[c].data.alloc /\ cells'[c].data.alloc

C12_ToGdsReleasesOnce ==
    [][ \A c \in 1..Len(cells) :
          /\ MaterializedBy(c) =>
               /\ ~cells'[c].source
               /\ source'.uses = source.uses - 1
               /\ out'.cell = c
               /\ out'.err \in {"NoError", "InputFileError"}
               /\ out'.err = "InputFileError" =>
                    (cells'[c].size = 0 /\ out'.count = 0
                     /\ cells'[c].data.count /= cells[c].size)
               /\ out'.err = "NoError" =>
                    (cells'[c].size = cells[c].size /\ cells'[c].data.count = cells[c].size)
          /\ \A ok \in BOOLEAN :
               (~cells[c].source /\ ToGds(c, ok)) => (source' = source /\ cells' = cells)
      ]_vars

\* a failed to_gds on one entity while another still holds the source
C12_Witness ==
    /\ out.cell /= NULL /\ out.err = "InputFileError"
    /\ cells[out.cell].size = 0 /\ ~cells[out.cell].source /\ cells[out.cell].data.alloc
    /\ source.uses >= 1 /\ source.open

(***************************************************************************)
(* C13: clear() on an entity that is already cleared leaves it as it is    *)
(* (no name, no source, no data, size 0, no dependencies) and neither      *)
(* decrements the use-count of the source nor closes or frees anything.    *)
(***************************************************************************)
IsCleared(cell) ==
    /\ cell.name = NoName /\ ~cell.source /\ ~cell.data.alloc
    /\ cell.size = 0 /\ cell.dependencies = <<>>

C13_ClearIsIdempotent ==
    [][ \A c \in 1..Len(cells) :
          /\ Clear(c) => IsCleared(cells'[c])
          /\ (IsCleared(cells[c]) /\ Clear(c)) => UNCHANGED vars
      ]_vars

\* an entity with a dependency was cleared; another still holds the source
C13_Witness ==
    /\ \E c \in 1..Len(cells) :
         /\ IsCleared(cells[c])
         /\ LoadFile(file).cells[c].dependencies /= <<>>
    /\ source.uses >= 1 /\ source.open /\ source.closes = 0

(***************************************************************************)
(* get_polygons on files that hold one boundary more: every file of the    *)
(* universe with a boundary of MaxPairs + 1 coordinate pairs closing its   *)
(* last structure.  The XY loop emits two vertices of that boundary, and a *)
(* file can hold it next to MaxElems instances.                            *)
(***************************************************************************)
NestDescs ==
    { [d EXCEPT ![Len(d)] = Append(@, <<"BOUNDARY", MaxPairs + 1>>)] :
        d \in FileDescs \ {<<>>} }
NestFiles == { FileRecords(d) : d \in NestDescs }

InitNest ==
    /\ file \in NestFiles
    /\ LoadedFile
    /\ gd = NoGd
    /\ gp_stack = <<>>
    /\ start_id = 0
    /\ polygons = <<>>
    /\ gp = NoGp

SpecNest == InitNest /\ [][NextPoly]_vars

(***************************************************************************)
(* C14: within one top-level get_polygons call, nested expansions          *)
(* included, the polygon id grows by exactly one per emitted polygon and   *)
(* never decreases: the vertices emitted for one boundary share one id,    *)
(* two emitted polygons never share an id, and the ids are consecutive     *)
(* from the initial start_id (0).                                          *)
(***************************************************************************)
\* The XY record and the pair in it that an emitted triple was read from
Origin(t) ==
    CHOOSE p \in IndexesOf(file, "XY") \X (1..(MaxPairs + 1)) :
        /\ 8 * p[2] <= Len(file[p[1]].data)
        /\ TripleOf(file[p[1]], p[2], t[3]) = t

C14_IdsCountPolygons ==
    /\ start_id = IF polygons = <<>> THEN 0 ELSE polygons[Len(polygons)][3] + 1
    /\ \A k \in 1..Len(polygons) :
         IF k = 1
         THEN polygons[k][3] = 0 /\ Origin(polygons[k])[2] = 1
         ELSE IF polygons[k][3] = polygons[k - 1][3]
              THEN /\ Origin(polygons[k])[1] = Origin(polygons[k - 1])[1]
                   /\ Origin(polygons[k])[2] > Origin(polygons[k - 1])[2]
              ELSE /\ polygons[k][3] = polygons[k - 1][3] + 1
                   /\ Origin(polygons[k])[2] = 1

\* a finished call with a nested expansion in which one boundary was emitted
\* by two scans, each time with two vertices under one id
C14_Witness ==
    /\ gp.state = "done" /\ gp.calls /= <<>>
    /\ \E j, k \in 1..Len(polygons) :
         /\ j + 1 < k /\ k + 1 <= Len(polygons)
         /\ polygons[j][3] = polygons[j + 1][3]
         /\ polygons[k][3] = polygons[k + 1][3]
         /\ polygons[j][3] /= polygons[k][3]
         /\ Origin(polygons[j])[1] = Origin(polygons[k])[1]

(***************************************************************************)
(* C15: a STRNAME record lets a scan enter its target only when the name   *)
(* in the record is exactly the target name; a structure whose name is a   *)
(* proper prefix of the target name does not.                              *)
(* The comparison is strncmp(str, name, data_length) with the length of    *)
(* the record's payload: a record name of even length (no padding NUL)     *)
(* that is a prefix of the target name compares equal.                     *)
(***************************************************************************)
C15_TargetEnteredOnExactName ==
    \A k \in 1..Len(gp_stack) :
        gp_stack[k].target_cell_found =>
            \E i \in IndexesOf(file, "STRNAME") :
                /\ i <= gp_stack[k].idx
                /\ StripNul(file[i].data) = cells[gp_stack[k].cell].name

(***************************************************************************)
(* C16: when the record reader returns an error during a scan, that scan   *)
(* ends at once, emits nothing more, and the error code is the reader's    *)
(* error; an error code that is set, also by a nested scan, is never set   *)
(* back to NoError, so the top-level call returns with it.                 *)
(***************************************************************************)
\* the step ends the innermost scan, and not by reading ENDLIB
ScanAborts ==
    /\ gp_stack /= <<>> /\ Len(gp_stack') < Len(gp_stack)
    /\ ~(Top.idx < Len(file) /\ NextRecord.type = "ENDLIB")

C16_ReaderErrorPropagates ==
    [][ /\ error_code /= "NoError" => error_code' /= "NoError"
        /\ ScanAborts =>
             /\ error_code' = "InputFileError"
             /\ polygons' = polygons /\ start_id' = start_id
             /\ gp_stack' = SubSeq(gp_stack, 1, Len(gp_stack) - 1)
             /\ (Len(gp_stack) = 1 => gp'.state = "done")
      ]_vars

\* the reader failed in a nested scan; the enclosing scan has gone on
C16_Witness ==
    /\ gp.state = "running" /\ Len(gp_stack) = 1 /\ gp.streams >= 2
    /\ error_code = "InputFileError"

(***************************************************************************)
(* C17: get_polygons with depth = -1 on a target whose dependency graph    *)
(* holds a cycle, over a finite stream that ends with ENDLIB, terminates.  *)
(* At the first instance record inside the target the call runs            *)
(* get_dependencies(true), which does not return on a cycle (C1).          *)
(***************************************************************************)
C17_CyclicExtractionTerminates ==
    (gp.depth = -1 /\ gp.cell /= NULL /\ ~Acyclic(gp.cell)) => gp.state /= "diverged"

(***************************************************************************)
(* C18: with depth = 0 get_polygons emits only vertices of boundary / box  *)
(* elements that lie between the STRNAME and the ENDSTR record of the      *)
(* target; no vertex of a structure that merely follows in the stream.     *)
(* (Stated for a target that is the first structure of the file, where no  *)
(* earlier name record can be mistaken for the target's.)                  *)
(* target_cell_found is never reset at ENDSTR: every boundary from the     *)
(* target to the end of the library is emitted.                            *)
(***************************************************************************)
C18_OnlyTargetPolygons ==
    ( /\ gp.state = "done" /\ error_code = "NoError" /\ gp_stack = <<>>
      /\ gp.depth = 0 /\ gp.cell = 1 ) =>
        \A j \in 1..Len(polygons) :
            Origin(polygons[j])[1] \in StructIndexes(file, gp.cell)

(***************************************************************************)
(* C19: on an acyclic dependency graph with all slots resolved,            *)
(* get_dependencies from an empty accumulator leaves in it exactly the     *)
(* entities of the receiver's own list (recursive = false), or exactly the *)
(* entities reachable from the receiver by one or more edges (recursive =  *)
(* true), each under its name; no dependency list is changed.              *)
(***************************************************************************)
\* The accumulator that holds exactly the entities S, each under its name
MapOf(S) == [n \in {cells[c].name : c \in S} |-> result[n]]

C19_DependenciesOnAcyclicGraph ==
    /\ cells = LoadFile(file).cells
    /\ (gd.state /= "idle" /\ Acyclic(gd.cell)) =>
         /\ gd.state = "done"
         /\ gd.map = MapOf(IF gd.recursive THEN ReachableFrom(gd.cell)
                           ELSE EdgesOf(gd.cell))

\* a recursive query that had to descend: more is reachable than the own list
C19_Witness ==
    /\ gd.state = "done" /\ gd.recursive /\ Acyclic(gd.cell)
    /\ ReachableFrom(gd.cell) /= EdgesOf(gd.cell)
    /\ gd.map = MapOf(ReachableFrom(gd.cell))

(***************************************************************************)
(* The resolution pass of read_rawcells at ENDLIB, one iteration of its    *)
(* inner loop per step.  td holds the map items not yet visited; the map   *)
(* is iterated in an order the caller cannot rely on.                      *)
(***************************************************************************)
UnusedByResolve == <<file, idx, result, out, gd, gp_stack, start_id, polygons, gp>>

\* i < dependencies->count for the item in hand
InItem == rp.item /= NULL /\ rp.i < Len(cells[rp.item].dependencies)
\* (*dependencies)[i] and result.get(name)
SlotName == cells[rp.item].dependencies[rp.i + 1].val
SlotCell == MapGet(result, SlotName)

\* item = result.next(item)
ResolveItem ==
    /\ pc = "resolving" /\ ~InItem
    /\ \E key \in td :
         /\ rp' = [item |-> result[key], i |-> 0]
         /\ td' = td \ {key}
    /\ UNCHANGED <<pc, cells, rawcell, source, error_code, UnusedByResolve>>

\* the name is defined and not yet in the list: (*dependencies)[i] = rawcell; i++
ResolveSlot ==
    /\ pc = "resolving" /\ InItem
    /\ SlotCell /= NULL
    /\ ~ArrayContains(cells[rp.item].dependencies, CellSlot(SlotCell))
    /\ cells' = [cells EXCEPT ![rp.item].dependencies[rp.i + 1] = CellSlot(SlotCell)]
    /\ rp' = [rp EXCEPT !.i = @ + 1]
    /\ rawcell' = SlotCell
    /\ UNCHANGED <<pc, source, td, error_code, UnusedByResolve>>

\* the name is defined and already in the list: remove_unordered(i)
ResolveDuplicate ==
    /\ pc = "resolving" /\ InItem
    /\ SlotCell /= NULL
    /\ ArrayContains(cells[rp.item].dependencies, CellSlot(SlotCell))
    /\ cells' = [cells EXCEPT ![rp.item].dependencies = RemoveUnordered(@, rp.i + 1)]
    /\ rawcell' = SlotCell
    /\ UNCHANGED <<pc, source, td, error_code, rp, UnusedByResolve>>

\* ResolveMissing moving the cursor on after the removal
ResolveMissing_StepsOn ==
    /\ pc = "resolving" /\ InItem
    /\ SlotCell = NULL
    /\ cells' = [cells EXCEPT ![rp.item].dependencies = RemoveUnordered(@, rp.i + 1)]
    /\ rp' = [rp EXCEPT !.i = @ + 1]
    /\ rawcell' = NULL
    /\ error_code' = "MissingReference"
    /\ UNCHANGED <<pc, source, td, UnusedByResolve>>

\* the name is not defined: remove_unordered(i), MissingReference
ResolveMissing ==
    /\ pc = "resolving" /\ InItem
    /\ SlotCell = NULL
    /\ cells' = [cells EXCEPT ![rp.item].dependencies = RemoveUnordered(@, rp.i + 1)]
    /\ rawcell' = NULL
    /\ error_code' = "MissingReference"
    /\ UNCHANGED <<pc, source, td, rp, UnusedByResolve>>

\* after the last item: the close of an unused source, the return
ResolveEnds ==
    /\ pc = "resolving" /\ ~InItem /\ td = {}
    /\ source' = IF source.uses = 0
                 THEN [source EXCEPT !.open = FALSE, !.closes = @ + 1, !.freed = TRUE]
                 ELSE source
    /\ pc' = "returned"
    /\ UNCHANGED <<cells, rawcell, td, error_code, rp, UnusedByResolve>>

\* The loader state in which the ENDLIB record of the file is read
BeforeENDLIB(f) == LoadFrom(LoaderInit, SubSeq(f, 1, Len(f) - 1), 1)

InitResolve ==
    /\ file \in Files
    /\ LET L == BeforeENDLIB(file)
       IN /\ cells = L.cells
          /\ result = L.result
          /\ rawcell = L.rawcell
          /\ source = [NoSource EXCEPT !.uses = L.uses, !.open = TRUE]
          /\ td = DOMAIN L.result
    /\ pc = "resolving"
    /\ idx = Len(file)
    /\ rp = NoRp
    /\ error_code = "NoError"
    /\ out = NoOut
    /\ gd = NoGd
    /\ gp_stack = <<>>
    /\ start_id = 0
    /\ polygons = <<>>
    /\ gp = NoGp

NextResolve ==
    \/ ResolveItem
    \/ ResolveSlot
    \/ ResolveDuplicate
    \/ ResolveMissing
    \/ ResolveEnds

SpecResolve == InitResolve /\ [][NextResolve]_vars

(***************************************************************************)
(* C20: after the resolution pass no dependency list holds an entity       *)
(* twice: of several SNAME records of one structure that name the same     *)
(* structure exactly one resolved slot remains.  Throughout the pass the   *)
(* slots before the cursor are resolved and the slots from the cursor on   *)
(* are pending names.  (The pass ends in the lists that the ENDLIB branch  *)
(* of the loader computes in one step.)                                    *)
(***************************************************************************)
Deps(c) == cells[c].dependencies
SNamesOf(f, k) == StructIndexes(f, k) \cap IndexesOf(f, "SNAME")

C20_NoDuplicateDependency ==
    /\ \A c \in 1..Len(cells) : \A j, k \in 1..Len(Deps(c)) :
         (j /= k /\ Deps(c)[j].tag = "cell") => Deps(c)[j] /= Deps(c)[k]
    /\ (pc = "resolving" /\ rp.item /= NULL) =>
         \A j \in 1..Len(Deps(rp.item)) :
             Deps(rp.item)[j].tag = IF j <= rp.i THEN "cell" ELSE "name"
    /\ pc = "returned" =>
         /\ cells = ResolveAll(BeforeENDLIB(file).cells, result)
         /\ \A c \in 1..Len(cells) :
              /\ SlotSet(c) = {CellSlot(result[Name(j)]) :
                                 j \in ReferredBy(file, c) \cap DefinedNames(file)}
              /\ Len(Deps(c)) = Cardinality(SlotSet(c))

\* a structure with two SNAME records for one defined structure kept one slot
C20_Witness ==
    /\ pc = "returned"
    /\ \E c \in 1..Len(cells) :
         /\ Cardinality(SNamesOf(file, c)) = 2
         /\ Cardinality(ReferredBy(file, c)) = 1
         /\ Len(Deps(c)) = 1 /\ Deps(c)[1].tag = "cell"

(***************************************************************************)
(* C21: after read_rawcells returned successfully, under every sequence of *)
(* clear() and to_gds() calls on the returned entities, the use-count of   *)
(* the shared source equals the number of entities that hold a reference   *)
(* to it, and every entity that holds one sees a use-count of at least 1   *)
(* and an open stream.                                                     *)
(***************************************************************************)
C21_UseCountIsHolders ==
    pc = "returned" =>
        /\ source.uses = Cardinality(Holders)
        /\ Holders /= {} => (source.uses >= 1 /\ source.open /\ ~source.freed)

\* three entities were returned; one has released the source, two hold it
C21_Witness ==
    /\ pc = "returned" /\ Len(cells) = 3
    /\ Cardinality(Holders) = 2 /\ source.uses = 2 /\ source.open

(***************************************************************************)
(* C22: every stream a get_polygons call opens for its scan is closed when *)
(* that call returns, at ENDLIB, on a reader error, and on the return from *)
(* a nested expansion: the open streams are at most those of the calls     *)
(* still scanning, and none once the top-level call has returned.          *)
(* get_polygons opens its stream with fopen and has no fclose on any exit. *)
(***************************************************************************)
C22_StreamsClosedAtReturn ==
    gp.state \in {"running", "done"} => OpenStreams <= Len(gp_stack)
====
